---- MODULE Spec2Model ----
(***************************************************************************)
(* Model of render_unwrap (src/src/main.rs): the `main` pipeline that      *)
(* filters two aligned arrays into a point cloud, fits the surface         *)
(* (ax+by+c)/(dx+ey+1), subtracts it, centres the residual, writes a data  *)
(* file and a gnuplot script into temporary files and runs gnuplot.        *)
(*                                                                         *)
(* An f64 is modelled as <<n, d, e>>.  For d > 0 it is a number: the       *)
(* rational n/d in lowest terms exactly when e = 0, and for e > 0 an f64   *)
(* within 2^(e - ErrBias) of n/d.  An operation on exact operands returns  *)
(* the f64 nearest to its result: the result itself when that is an f64 (a *)
(* multiple of 2^-1074 of 53 significant bits), an infinity from           *)
(* 2^1024 - 2^970 on, zero up to 2^-1075, and otherwise the result with    *)
(* half a unit in its last place as error bound.  An operation on operands *)
(* with error bounds carries the bounds over to its result and adds that   *)
(* of its own rounding; bounds are powers of two, rounded up.  d = 0 holds *)
(* the other values: NaN, the infinities, f64::MAX and f64::MIN (only ever *)
(* compared), and two results that the errors decide: InfOrNaN (a value    *)
(* that may be zero, divided by zero) and Indet (any f64 or NaN: a         *)
(* division by a value that may be zero, a result whose error bound        *)
(* reaches the overflow limit).                                            *)
(***************************************************************************)
EXTENDS Integers, Sequences, FiniteSets

\* ---------------------------------------------------------------- bounds
\* Largest number of cells (rows * columns) of an input array.
MaxCells == 4
\* Quality thresholds are the integers 0..MaxThreshold.
MaxThreshold == 1

\* ------------------------------------------------------- exact rationals
Abs(n) == IF n < 0 THEN -n ELSE n

RECURSIVE GCD(_, _)
GCD(a, b) == IF b = 0 THEN a ELSE GCD(b, a % b)

\* n/d in lowest terms with a positive denominator, d # 0.
Rat(n, d) ==
    LET g == GCD(Abs(n), Abs(d))
        s == IF d < 0 THEN -1 ELSE 1
    IN  <<(s * n) \div g, (s * d) \div g>>

\* Sum, difference, product and quotient (b # 0) of rationals in lowest
\* terms, with common factors taken out before multiplying.
QAdd(a, b) ==
    LET g == GCD(a[2], b[2])
    IN  Rat(a[1] * (b[2] \div g) + b[1] * (a[2] \div g), (a[2] \div g) * b[2])
QSub(a, b) == QAdd(a, <<-b[1], b[2]>>)
QMul(a, b) ==
    LET g == GCD(Abs(a[1]), b[2])
        h == GCD(Abs(b[1]), a[2])
    IN  IF a[1] = 0 \/ b[1] = 0 THEN <<0, 1>>
        ELSE <<(a[1] \div g) * (b[1] \div h), (a[2] \div h) * (b[2] \div g)>>
QDiv(a, b) == QMul(a, IF b[1] < 0 THEN <<-b[2], -b[1]>> ELSE <<b[2], b[1]>>)

RECURSIVE QSum(_)
QSum(s) == IF Len(s) = 0 THEN <<0, 1>> ELSE QAdd(Head(s), QSum(Tail(s)))

\* A sequence with every element evaluated.
Seq1(s) == <<>> \o s

\* ------------------------------------------------------------ f64 values
R(n) == <<n, 1, 0>>
NaN == <<0, 0, 0>>
\* Any f64 or NaN: which one is decided by rounding errors.
Indet == <<0, 0, 1>>
PosInf == <<1, 0, 0>>
NegInf == <<-1, 0, 0>>
F64_MAX == <<2, 0, 0>>
F64_MIN == <<-2, 0, 0>>
\* An infinity or NaN: which one is decided by rounding errors.
InfOrNaN == <<3, 0, 0>>

IsFinite(a) == a[2] # 0
IsInf(a) == a = PosInf \/ a = NegInf
Sign(a) == IF a[1] > 0 THEN 1 ELSE IF a[1] < 0 THEN -1 ELSE 0
Infinity(s) == IF s < 0 THEN NegInf ELSE PosInf
ExactZero(a) == a[2] # 0 /\ a[1] = 0 /\ a[3] = 0

RECURSIVE IsPow2(_)
IsPow2(d) == IF d <= 1 THEN d = 1 ELSE d % 2 = 0 /\ IsPow2(d \div 2)

\* f64::MANTISSA_DIGITS and f64::MAX_EXP: 53 significant bits, values below
\* 2^1024; the smallest positive f64 is 2^-SubnormalBits, the smallest one
\* of 53 significant bits 2^MinExponent.
MantissaBits == 53
MaxExponent == 1024
SubnormalBits == 1074
MinExponent == MantissaBits - 1 - SubnormalBits

\* Number of binary digits of n >= 0, and n shifted right by k >= 0 digits.
RECURSIVE Bits(_)
Bits(n) == IF n = 0 THEN 0 ELSE 1 + Bits(n \div 2)
RECURSIVE Shr(_, _)
Shr(n, k) == IF k = 0 \/ n = 0 THEN n ELSE Shr(n \div 2, k - 1)

\* n > 0 without its trailing zero bits.
RECURSIVE OddPart(_)
OddPart(n) == IF n % 2 = 0 /\ n # 0 THEN OddPart(n \div 2) ELSE n

\* The x with 2^x <= |q| < 2^(x+1), for q # 0.
Exponent(q) ==
    LET n == Abs(q[1])
        k == Bits(n) - Bits(q[2])
    IN  IF (IF k >= 0 THEN Shr(n, k) >= q[2] ELSE n > Shr(q[2] - 1, -k))
        THEN k ELSE k - 1

\* |q| <= 2^x
Within(q, x) ==
    IF x < 0 THEN Abs(q[1]) <= Shr(q[2], -x)
    ELSE q[1] = 0 \/ Shr(Abs(q[1]) - 1, x) < q[2]

\* The rational q (lowest terms, below the overflow limit) is an f64: a
\* multiple of 2^-1074 with at most 53 significant bits.
Representable(q) ==
    /\ IsPow2(q[2])
    /\ Bits(q[2]) <= SubnormalBits + 1
    /\ Bits(OddPart(Abs(q[1]))) <= MantissaBits

\* |q| >= 2^1024 - 2^970 = (2^54 - 1) * 2^970: q rounds to an infinity (the
\* tie between f64::MAX and 2^1024 goes to 2^1024).
Overflows(q) ==
    Bits((Shr(Abs(q[1]), MaxExponent - MantissaBits - 1) \div q[2]) + 1)
        > MantissaBits + 1

\* 0 < |q| <= 2^-1075: q rounds to zero (the tie between 0 and 2^-1074 goes
\* to 0).
Underflows(q) == q[1] # 0 /\ Abs(q[1]) <= Shr(q[2], SubnormalBits + 1)

\* Error bounds.  The third component e > 0 of a number stands for the
\* bound 2^(e - ErrBias), e = 0 for no error; no bound is kept below
\* 2^-1075, half the distance between the smallest f64.
ErrBias == SubnormalBits + 2
ErrCode(x) == IF x + ErrBias < 1 THEN 1 ELSE x + ErrBias
ErrExp(a) == a[3] - ErrBias
\* A bound of the sum of two errors.
ErrSum(e, f) == IF e = 0 THEN f ELSE IF f = 0 THEN e ELSE (IF e > f THEN e ELSE f) + 1
\* A bound of the error e times |b|, and of the product of two errors.
ErrTimes(e, b) == IF e = 0 \/ b[1] = 0 THEN 0 ELSE ErrCode(e - ErrBias + Exponent(b) + 1)
ErrBoth(e, f) == IF e = 0 \/ f = 0 THEN 0 ELSE ErrCode((e - ErrBias) + (f - ErrBias))
\* Half a unit in the last place of the f64 of exponent x: the most that
\* rounding to nearest changes a result of that exponent.
HalfUlp(x) == ErrCode((IF x > MinExponent THEN x ELSE MinExponent) - MantissaBits)

\* A number with an error bound above a quarter of its size: the f64 may be
\* zero, and of either sign.
NearZero(a) ==
    a[2] # 0 /\ a[3] # 0 /\ (a[1] = 0 \/ ErrExp(a) > Exponent(a) - 2)

\* The f64 that an operation returns whose result on its f64 operands is
\* the rational q: the f64 nearest to q.
Rounded(q) ==
    IF Overflows(q) THEN Infinity(q[1])
    ELSE IF Underflows(q) THEN R(0)
    ELSE <<q[1], q[2], IF Representable(q) THEN 0 ELSE HalfUlp(Exponent(q))>>

\* The f64 that an operation returns whose result on its f64 operands is
\* within 2^(e - ErrBias) of q, e > 0, and so below 2^top in size: the
\* rounding adds half a unit in the last place.  Past 2^1023 the errors
\* decide whether the result is finite, unless q is past 2^1025 and the
\* bound below 2^1024.
RoundedNear(q, e) ==
    LET x == e - ErrBias
        top == IF q[1] = 0 THEN x + 1
               ELSE (IF Exponent(q) + 1 > x THEN Exponent(q) + 1 ELSE x) + 1
    IN  IF top >= MaxExponent
        THEN (IF q[1] # 0 /\ Exponent(q) > MaxExponent /\ x < MaxExponent
              THEN Infinity(q[1]) ELSE Indet)
        ELSE <<q[1], q[2], ErrSum(e, HalfUlp(top - 1))>>

RNeg(a) == IF IsFinite(a) \/ IsInf(a) THEN <<-a[1], a[2], a[3]>> ELSE a

RAdd(a, b) ==
    IF a = NaN \/ b = NaN THEN NaN
    ELSE IF a = Indet \/ b = Indet THEN Indet
    ELSE IF a = InfOrNaN \/ b = InfOrNaN THEN InfOrNaN
    ELSE IF IsInf(a) /\ IsInf(b) THEN (IF a = b THEN a ELSE NaN)
    ELSE IF IsInf(a) THEN a
    ELSE IF IsInf(b) THEN b
    ELSE LET e == ErrSum(a[3], b[3])
         IN  IF e = 0 THEN Rounded(QAdd(a, b)) ELSE RoundedNear(QAdd(a, b), e)

RSub(a, b) == RAdd(a, RNeg(b))

\* (a + da)(b + db) = ab + a db + b da + da db
RMul(a, b) ==
    IF a = NaN \/ b = NaN THEN NaN
    ELSE IF a = Indet \/ b = Indet THEN Indet
    ELSE IF ExactZero(a) \/ ExactZero(b)
         THEN (IF IsFinite(a) /\ IsFinite(b) THEN R(0) ELSE NaN)
    ELSE IF a = InfOrNaN \/ b = InfOrNaN THEN InfOrNaN
    ELSE IF IsInf(a) \/ IsInf(b)
         THEN (IF NearZero(a) \/ NearZero(b) THEN InfOrNaN
               ELSE Infinity(Sign(a) * Sign(b)))
    ELSE LET e == ErrSum(ErrSum(ErrTimes(b[3], a), ErrTimes(a[3], b)),
                         ErrBoth(a[3], b[3]))
         IN  IF e = 0 THEN Rounded(QMul(a, b)) ELSE RoundedNear(QMul(a, b), e)

\* A divisor b that is not NearZero is above 2^(Exponent(b) - 1) in size,
\* and (a + da)/(b + db) - a/b = (da - (a/b) db)/(b + db).  A zero divisor
\* is +0.0: the divisor of line 140 is a sum that ends in `+1.`, never -0.0,
\* and the quotient by a period of -0 only goes into rem_euclid, which
\* returns NaN for either infinity.
RDiv(a, b) ==
    IF a = NaN \/ b = NaN THEN NaN
    ELSE IF ExactZero(b)
         THEN (IF ExactZero(a) THEN NaN
               ELSE IF IsInf(a) THEN a
               ELSE IF IsFinite(a) /\ ~NearZero(a) THEN Infinity(Sign(a))
               ELSE InfOrNaN)
    ELSE IF a = Indet \/ b = Indet \/ NearZero(b) THEN Indet
    ELSE IF b = InfOrNaN THEN (IF IsFinite(a) THEN Indet ELSE NaN)
    ELSE IF IsInf(b) THEN (IF IsFinite(a) THEN R(0) ELSE NaN)
    ELSE IF a = InfOrNaN THEN InfOrNaN
    ELSE IF IsInf(a) THEN Infinity(Sign(a) * Sign(b))
    ELSE IF ExactZero(a) THEN R(0)
    ELSE LET q == QDiv(a, b)
             low == Exponent(b) - 1
             e == ErrSum(IF a[3] = 0 THEN 0 ELSE ErrCode(ErrExp(a) - low),
                         IF b[3] = 0 \/ q[1] = 0 THEN 0
                         ELSE ErrCode(Exponent(q) + 1 + ErrExp(b) - low))
         IN  IF e = 0 THEN Rounded(q) ELSE RoundedNear(q, e)

\* Place of an ordered value among the finite ones (0): below them the
\* negative infinity and f64::MIN, above them f64::MAX and the infinity.
Class(a) == IF IsFinite(a) THEN 0 ELSE IF IsInf(a) THEN 2 * a[1] ELSE a[1] \div 2
Ordered(a) == IsFinite(a) \/ IsInf(a) \/ a = F64_MAX \/ a = F64_MIN

\* a < b, false when either is NaN.
RLess(a, b) ==
    /\ Ordered(a) /\ Ordered(b)
    /\ IF Class(a) # Class(b) THEN Class(a) < Class(b)
       ELSE Class(a) = 0 /\ a[1] * b[2] < b[1] * a[2]

\* ArrayBase::sum of a strided column: a fold from the left that starts at
\* zero, ((0 + s[1]) + s[2]) + ...
RECURSIVE SumFrom(_, _)
SumFrom(acc, s) == IF Len(s) = 0 THEN acc ELSE SumFrom(RAdd(acc, Head(s)), Tail(s))
RSum(s) == SumFrom(R(0), s)

\* ---------------------------------------------------------- input arrays
\* An Array2<f64> as read_npy returns it: h rows, w columns, the h*w
\* elements v, element (i, j), 0-based, being v[i*w + j + 1], and the memory
\* layout taken over from the file: column-major for a file of
\* fortran_order True, row-major (standard) otherwise.  An array of one row
\* or one column has both layouts at once and is listed as standard.
Shapes == {s \in (1..MaxCells) \X (1..MaxCells) : s[1] * s[2] <= MaxCells}
PhaseVals == {R(0), R(1)}
QualityVals == {R(0), R(1)}
Layouts(s) == IF s[1] > 1 /\ s[2] > 1 THEN BOOLEAN ELSE {FALSE}
Arrays(vals) ==
    UNION {[h : {s[1]}, w : {s[2]}, v : [1..(s[1] * s[2]) -> vals],
            fortran : Layouts(s)] : s \in Shapes}
ConstantArrays(vals) ==
    {a \in Arrays(vals) : \A k \in DOMAIN a.v : a.v[k] = a.v[1]}
At(a, i, j) == a.v[i * a.w + j + 1]

\* ------------------------------------------------------------------ Args
None == <<>>
\* --fit-coefficients a b c d e; the last one makes dx+ey+1 zero in the
\* column x = 1, the others keep it positive on the pixel grid.
SuppliedCoeffs ==
    {<<R(0), R(0), R(0), R(0), R(0)>>,
     <<R(0), R(0), R(1), R(1), R(1)>>,
     <<R(0), R(1), R(0), R(0), R(0)>>,
     <<R(0), R(0), R(0), R(-1), R(0)>>}
ColorPeriods == {R(-1), R(0), R(1)}
ZLims == {None, <<R(0), R(1)>>}
Thresholds == {R(t) : t \in 0..MaxThreshold}
DefaultArgs ==
    [threshold |-> R(0), color_period |-> R(1), fit_coefficients |-> None, zlim |-> None]
\* The default command line, and every command line that sets one option.
ArgsSet ==
    {DefaultArgs}
    \cup {[DefaultArgs EXCEPT !.threshold = t] : t \in Thresholds}
    \cup {[DefaultArgs EXCEPT !.color_period = p] : p \in ColorPeriods}
    \cup {[DefaultArgs EXCEPT !.fit_coefficients = c] : c \in SuppliedCoeffs}
    \cup {[DefaultArgs EXCEPT !.zlim = z] : z \in ZLims}

VARIABLES
    pc,            \* position in main
    args,          \* parsed command line
    uphase,        \* unwrapped phase array
    quality,       \* quality array
    data,          \* rows [x, y, z, q]
    min_u,         \* running minimum of retained phase values
    max_u,         \* running maximum of retained phase values
    matrix,        \* design matrix built by plane_fit
    target,        \* right-hand side handed to least_squares
    coeffs,        \* fit coefficients in use
    reported,      \* the coefficient report has been printed
    mean_z,        \* value subtracted by the centring step
    zlim,          \* range written to the script's depth axis
    data_file,     \* temporary data file: "none", "exists", "deleted"
    plot_file,     \* temporary script file: "none", "exists", "deleted"
    data_rows,     \* lines handed to the BufWriter: <<x, z, y, t>>
    data_flushed,  \* the data file holds every line of data_rows
    script,        \* settings written to the script
    gnuplot,       \* "not_run", "spawn_error", "exit0", "exit1"
    image,         \* the output image has been written
    failure,       \* why the run aborted, "" if it did not
    exit_code      \* process exit status, -1 while running

vars == <<pc, args, uphase, quality, data, min_u, max_u, matrix, target, coeffs,
          reported, mean_z, zlim, data_file, plot_file, data_rows, data_flushed,
          script, gnuplot, image, failure, exit_code>>

\* State after Args::parse() and both read_npy calls have succeeded.
\* Arrays of different shapes are taken constant-filled.
Init ==
    /\ pc = "scan"
    /\ args \in ArgsSet
    /\ uphase \in Arrays(PhaseVals)
    /\ quality \in Arrays(QualityVals)
    /\ \/ (uphase.h = quality.h /\ uphase.w = quality.w)
       \/ (uphase \in ConstantArrays(PhaseVals) /\ quality \in ConstantArrays(QualityVals))
    /\ data = <<>>
    /\ min_u = F64_MAX
    /\ max_u = F64_MIN
    /\ matrix = <<>>
    /\ target = <<>>
    /\ coeffs = None
    /\ reported = FALSE
    /\ mean_z = None
    /\ zlim = None
    /\ data_file = "none"
    /\ plot_file = "none"
    /\ data_rows = <<>>
    /\ data_flushed = FALSE
    /\ script = None
    /\ gnuplot = "not_run"
    /\ image = FALSE
    /\ failure = ""
    /\ exit_code = -1

\* ------------------------------------------------------- filtering scan
\* Variant: only requires the quality array to cover the phase array.
EqualDimAtLeast(a, b) == a.h <= b.h /\ a.w <= b.w

\* azip! panics unless every producer has the same dimension.
EqualDim(a, b) == a.h = b.h /\ a.w = b.w

\* `if q > args.threshold`
Retained(q, threshold) == RLess(threshold, q)

\* Variant: the maximum is set once and never raised.
FoldMaxFirst(u, m) == IF m = F64_MIN THEN u ELSE m

\* `if u > max_u { max_u = u; }` and `if u < min_u { min_u = u; }`
FoldMax(u, m) == IF RLess(m, u) THEN u ELSE m
FoldMin(u, m) == IF RLess(u, m) THEN u ELSE m

\* Layout tendency of a producer of azip!: positive for a row-major array,
\* negative for a column-major one, 0 for an array that is both; the index
\* producer has none.
Tendency(a) == IF a.h = 1 \/ a.w = 1 THEN 0 ELSE IF a.fortran THEN -2 ELSE 2

\* The index producer keeps azip! from the contiguous loop; the strided
\* loop runs column by column when the tendencies sum below zero, row by
\* row otherwise.
PreferF(a, b) == Tendency(a) + Tendency(b) < 0

\* The cell (i, j) visited at position k (0-based) of the loop.
VisitedAt(k) ==
    IF PreferF(uphase, quality) THEN <<k % uphase.h, k \div uphase.h>>
    ELSE <<k \div uphase.w, k % uphase.w>>

\* The closure body for the cell visited at position k and on.
RECURSIVE ScanFrom(_, _, _, _)
ScanFrom(k, d, lo, hi) ==
    IF k >= uphase.h * uphase.w THEN [data |-> d, min_u |-> lo, max_u |-> hi]
    ELSE LET i == VisitedAt(k)[1]
             j == VisitedAt(k)[2]
             u == At(uphase, i, j)
             q == At(quality, i, j)
         IN  IF Retained(q, args.threshold)
             THEN ScanFrom(k + 1, Append(d, <<R(j), R(i), u, q>>),
                           FoldMin(u, lo), FoldMax(u, hi))
             ELSE ScanFrom(k + 1, d, lo, hi)

Abort(why, code) ==
    /\ pc' = "exit"
    /\ failure' = why
    /\ exit_code' = code

Scan ==
    /\ pc = "scan"
    /\ IF EqualDim(uphase, quality)
       THEN LET r == ScanFrom(0, <<>>, F64_MAX, F64_MIN)
            IN  /\ data' = r.data
                /\ min_u' = r.min_u
                /\ max_u' = r.max_u
                /\ pc' = "fit"
                /\ UNCHANGED <<failure, exit_code>>
       ELSE /\ Abort("ShapeMismatch", 101)
            /\ UNCHANGED <<data, min_u, max_u>>
    /\ UNCHANGED <<args, uphase, quality, matrix, target, coeffs, reported, mean_z,
                   zlim, data_file, plot_file, data_rows, data_flushed, script,
                   gnuplot, image>>

\* ------------------------------------------------------------ plane_fit
\* Variant: the sign flip of columns 3.. is left out.
SignFlipSkipped(v) == v

\* `matrix.slice_mut(s![.., 3..]).mul_assign(-1.)`
SignFlip(v) == RMul(v, R(-1))

\* One row of the design matrix: ones, columns 0..2 and 3.. assigned x and y,
\* columns 3 and 4 multiplied by z, columns 3.. multiplied by -1.
DesignRow(p) ==
    <<p[1], p[2], R(1), SignFlip(RMul(p[1], p[3])), SignFlip(RMul(p[2], p[3]))>>

DesignMatrix(points) == [k \in DOMAIN points |-> DesignRow(points[k])]
TargetOf(points) == [k \in DOMAIN points |-> points[k][3]]

\* Gauss-Jordan elimination of the augmented rows M (n unknowns) from
\* column j and pivot row r on; piv[j] is the pivot row of column j, or 0.
RECURSIVE Reduce(_, _, _, _, _)
Reduce(M, n, j, r, piv) ==
    IF j > n \/ r > Len(M) THEN [M |-> M, piv |-> piv]
    ELSE LET cand == {i \in r..Len(M) : M[i][j][1] # 0}
         IN  IF cand = {} THEN Reduce(M, n, j + 1, r, piv)
             ELSE LET i == CHOOSE c \in cand : \A o \in cand : c <= o
                      top == M[i]
                      prow == Seq1([k \in 1..(n + 1) |-> QDiv(top[k], top[j])])
                      rowk(k) == IF k = r THEN prow
                                 ELSE LET old == IF k = i THEN M[r] ELSE M[k]
                                      IN  Seq1([l \in 1..(n + 1) |->
                                                  QSub(old[l], QMul(old[j], prow[l]))])
                  IN  Reduce(Seq1([k \in 1..Len(M) |-> rowk(k)]), n, j + 1, r + 1,
                             [piv EXCEPT ![j] = r])

\* A solution of the consistent system M (free unknowns 0).
SolveAny(M, n) ==
    LET red == Reduce(M, n, 1, 1, [k \in 1..n |-> 0])
    IN  Seq1([j \in 1..n |-> IF red.piv[j] = 0 THEN <<0, 1>> ELSE red.M[red.piv[j]][n + 1]])

\* Bits of the largest coefficient that the solver is taken to get right.
SolverBits == 26

\* The largest exponent of the non-zero numbers of c.
TopExponent(c) ==
    LET xs == {Exponent(c[j]) : j \in {i \in DOMAIN c : c[i][1] # 0}}
    IN  CHOOSE x \in xs : \A y \in xs : y <= x

\* `least_squares` (LAPACK gelsd, outside this repository): the minimiser of
\* |m c - t|^2 of least norm.  It is the vector m^T y of the row space whose
\* image m c is the projection of t on the column space: c0 solves the
\* normal equations, y solves (m m^T) y = m c0.  The solver returns it
\* rounded to f64, or with the rounding errors of its own arithmetic,
\* within 2^-SolverBits of the size of the largest coefficient.
LeastSquares(m, t) ==
    LET N == Len(m)
        A == Seq1([k \in 1..N |-> Seq1([j \in 1..5 |-> <<m[k][j][1], m[k][j][2]>>])])
        b == Seq1([k \in 1..N |-> <<t[k][1], t[k][2]>>])
        normal == Seq1([i \in 1..5 |->
                     Seq1([j \in 1..6 |->
                        IF j <= 5 THEN QSum([k \in 1..N |-> QMul(A[k][i], A[k][j])])
                        ELSE QSum([k \in 1..N |-> QMul(A[k][i], b[k])])])])
        c0 == SolveAny(normal, 5)
        p == Seq1([k \in 1..N |-> QSum([j \in 1..5 |-> QMul(A[k][j], c0[j])])])
        gram == Seq1([k \in 1..N |->
                   Seq1([l \in 1..(N + 1) |->
                      IF l <= N THEN QSum([j \in 1..5 |-> QMul(A[k][j], A[l][j])])
                      ELSE p[k]])])
        y == SolveAny(gram, N)
        c == Seq1([j \in 1..5 |-> QSum([k \in 1..N |-> QMul(A[k][j], y[k])])])
        err == IF \A j \in 1..5 : c[j][1] = 0 THEN 0
               ELSE ErrCode(TopExponent(c) + 1 - SolverBits)
    IN  {Seq1([j \in 1..5 |-> Rounded(c[j])]),
         Seq1([j \in 1..5 |-> <<c[j][1], c[j][2], err>>])}

\* Lines 124-137: take the supplied coefficients, or call plane_fit and print
\* the report; `expect` panics when the solver returns an error.
Fit ==
    /\ pc = "fit"
    /\ IF args.fit_coefficients # None
       THEN /\ coeffs' = args.fit_coefficients
            /\ pc' = "residual"
            /\ UNCHANGED <<matrix, target, reported, failure, exit_code>>
       ELSE /\ matrix' = DesignMatrix(data)
            /\ target' = TargetOf(data)
            /\ \/ /\ coeffs' \in LeastSquares(matrix', target')
                  /\ reported' = TRUE
                  /\ pc' = "residual"
                  /\ UNCHANGED <<failure, exit_code>>
               \/ /\ Abort("FitPanic", 101)
                  /\ UNCHANGED <<coeffs, reported>>
    /\ UNCHANGED <<args, uphase, quality, data, min_u, max_u, mean_z, zlim,
                   data_file, plot_file, data_rows, data_flushed, script, gnuplot,
                   image>>

\* ------------------------------------------------- residual and centring
\* (a x + b y + c) / (d x + e y + 1)
Fitted(c, x, y) ==
    RDiv(RAdd(RAdd(RMul(c[1], x), RMul(c[2], y)), c[3]),
         RAdd(RAdd(RMul(c[4], x), RMul(c[5], y)), R(1)))

\* `p[2] -= fitted` for every row
Subtracted(d, c) ==
    [k \in DOMAIN d |-> <<d[k][1], d[k][2], RSub(d[k][3], Fitted(c, d[k][1], d[k][2])), d[k][4]>>]

ZColumn(d) == [k \in DOMAIN d |-> d[k][3]]

\* ArrayBase::mean: None for an empty array, else sum / len
Mean(zs) == IF Len(zs) = 0 THEN None ELSE RDiv(RSum(zs), R(Len(zs)))

\* `zs.mean()` at line 145, where zs is the z column after the loop of
\* lines 139-141 (pre: the column before the loop, post: after it).
Shift(pre, post) == Mean(post)

\* `zs -= m`
Centred(d, m) == [k \in DOMAIN d |-> <<d[k][1], d[k][2], RSub(d[k][3], m), d[k][4]>>]

\* `args.zlim.unwrap_or(min_u..max_u)`
ZlimOf(a, lo, hi) == IF a.zlim # None THEN a.zlim ELSE <<lo, hi>>

\* Lines 139-150: `unwrap` panics on the None mean of an empty column.
Residual ==
    /\ pc = "residual"
    /\ LET sub == Seq1(Subtracted(data, coeffs))
           m == Shift(ZColumn(data), ZColumn(sub))
       IN  IF m = None
           THEN /\ data' = sub
                /\ Abort("EmptyMeanPanic", 101)
                /\ UNCHANGED <<mean_z, zlim>>
           ELSE /\ data' = Centred(sub, m)
                /\ mean_z' = m
                /\ zlim' = ZlimOf(args, min_u, max_u)
                /\ pc' = "tempfiles"
                /\ UNCHANGED <<failure, exit_code>>
    /\ UNCHANGED <<args, uphase, quality, min_u, max_u, matrix, target, coeffs,
                   reported, data_file, plot_file, data_rows, data_flushed, script,
                   gnuplot, image>>

\* -------------------------------------------------------- temporary files
\* Variant: the file is persisted (kept) instead of removed on drop.
DropTempKeep(f) == f

\* Drop of a NamedTempFile or TempPath removes the file.
DropTemp(f) == IF f = "exists" THEN "deleted" ELSE f

\* Lines 152-154: two NamedTempFile::new_in calls, each may fail; the `?`
\* of the second drops the first.
CreateTempFiles ==
    /\ pc = "tempfiles"
    /\ \/ /\ Abort("TempFileError", 1)
          /\ UNCHANGED <<data_file, plot_file>>
       \/ /\ Abort("TempFileError", 1)
          /\ data_file' = DropTemp("exists")
          /\ UNCHANGED plot_file
       \/ /\ data_file' = "exists"
          /\ plot_file' = "exists"
          /\ pc' = "write_data"
          /\ UNCHANGED <<failure, exit_code>>
    /\ UNCHANGED <<args, uphase, quality, data, min_u, max_u, matrix, target, coeffs,
                   reported, mean_z, zlim, data_rows, data_flushed, script, gnuplot,
                   image>>

\* -2^-54 <= r < 0: the negative r for which r + 1. rounds to 1.0 (half of
\* the distance from 1.0 to the f64 below it, the tie going to 1.0).
TinyNegative(r) == r[1] < 0 /\ -r[1] <= Shr(r[2], MantissaBits + 1)

\* The results f64::rem_euclid(1.) can return for r: `r % 1.`, which is
\* exact and has the sign of r, plus 1. when it is negative.  That sum is
\* rounded.  For an exact r it is 1.0 when -2^-54 <= r < 0 (r = -2^-54,
\* r = -1e-17), and otherwise the fractional part of r, in [0, 1), exact
\* when it is an f64.  For an r with an error bound it is an f64 of [0, 1]
\* within that bound (and the rounding of the sum) of the fractional part
\* of the f64 behind r, which is the fractional part f of n/d moved by the
\* error, or f + 1 or f - 1 when the error can carry r across an integer.
\* NaN for NaN and the infinities.
RemEuclid1(r) ==
    IF r = Indet THEN {Indet}
    ELSE IF ~IsFinite(r) THEN {NaN}
    ELSE LET f == <<r[1] % r[2], r[2]>>
             e == ErrSum(r[3], ErrCode(-(MantissaBits + 1)))
         IN  IF r[3] # 0
             THEN {<<f[1], f[2], e>>}
                  \cup (IF Within(f, ErrExp(r)) THEN {<<f[1] + f[2], f[2], e>>} ELSE {})
                  \cup (IF Within(<<f[2] - f[1], f[2]>>, ErrExp(r))
                        THEN {<<f[1] - f[2], f[2], e>>} ELSE {})
             ELSE IF TinyNegative(r) THEN {R(1)}
             ELSE {<<f[1], f[2], IF Representable(f) THEN 0 ELSE HalfUlp(Exponent(f))>>}

\* `(z/args.color_period).rem_euclid(1.)`
ColorParam(z, period) == RemEuclid1(RDiv(z, period))

\* The lines "{x} {z} {y} 0x{color:X}" a row can give: the colour is RAINBOW
\* evaluated at the colour parameter, which stands for it in the fourth
\* column.
DataRow(p) == {<<p[1], p[3], p[2], t>> : t \in ColorParam(p[3], args.color_period)}

RECURSIVE DataRows(_)
DataRows(d) ==
    IF Len(d) = 0 THEN {<<>>}
    ELSE {<<r>> \o rest : r \in DataRow(Head(d)), rest \in DataRows(Tail(d))}

\* Capacity in bytes of the buffer of BufWriter::new, and a length no line
\* "{x} {z} {y} 0x{color:X}" exceeds (an f64 prints in under 350 bytes).
BufCapacity == 8192
MaxRowBytes == 400

\* The lines of d can outgrow the buffer, so that a writeln! has to write
\* to the file.
BufferFills(d) == Len(d) * MaxRowBytes > BufCapacity

\* Lines 156-165: the lines go into the buffer of the BufWriter.  A
\* writeln! fails only when it has to empty the buffer into the file and
\* that write fails; its `?` then returns from main and drops both files.
\* Otherwise drop(writer) writes the lines to the file and discards a
\* write error, which leaves the file short.
WriteData ==
    /\ pc = "write_data"
    /\ \/ /\ data_rows' \in DataRows(data)
          /\ data_flushed' \in BOOLEAN
          /\ pc' = "write_script"
          /\ UNCHANGED <<data_file, plot_file, failure, exit_code>>
       \/ /\ BufferFills(data)
          /\ \E n \in 0..(Len(data) - 1) : data_rows' \in DataRows(SubSeq(data, 1, n))
          /\ data_flushed' = FALSE
          /\ Abort("WriteError", 1)
          /\ data_file' = DropTemp(data_file)
          /\ plot_file' = DropTemp(plot_file)
    /\ UNCHANGED <<args, uphase, quality, data, min_u, max_u, matrix, target, coeffs,
                   reported, mean_z, zlim, script, gnuplot, image>>

\* Lines 168-193: the ranges written to the script.
ScriptOf(z) ==
    [xrange |-> <<R(0), R(uphase.w)>>,
     zrange |-> <<R(uphase.h), R(0)>>,
     yrange |-> z]

\* Every writeln to the (unbuffered) script file may fail; `?` returns and
\* drops both files.
WriteScript ==
    /\ pc = "write_script"
    /\ \/ /\ script' = ScriptOf(zlim)
          /\ pc' = "gnuplot"
          /\ UNCHANGED <<data_file, plot_file, failure, exit_code>>
       \/ /\ Abort("WriteError", 1)
          /\ data_file' = DropTemp(data_file)
          /\ plot_file' = DropTemp(plot_file)
          /\ UNCHANGED script
    /\ UNCHANGED <<args, uphase, quality, data, min_u, max_u, matrix, target, coeffs,
                   reported, mean_z, zlim, data_rows, data_flushed, gnuplot, image>>

\* Lines 195-199: `status()?` fails only when gnuplot cannot be started; the
\* returned ExitStatus is discarded and main returns Ok(()).  gnuplot writes
\* the image when it exits with status 0.
RunGnuplot ==
    /\ pc = "gnuplot"
    /\ \/ /\ gnuplot' = "spawn_error"
          /\ Abort("SpawnError", 1)
          /\ UNCHANGED image
       \/ /\ \E s \in {"exit0", "exit1"} :
                /\ gnuplot' = s
                /\ image' = (s = "exit0")
          /\ pc' = "exit"
          /\ exit_code' = 0
          /\ UNCHANGED failure
    /\ data_file' = DropTemp(data_file)
    /\ plot_file' = DropTemp(plot_file)
    /\ UNCHANGED <<args, uphase, quality, data, min_u, max_u, matrix, target, coeffs,
                   reported, mean_z, zlim, data_rows, data_flushed, script>>

Next ==
    \/ Scan
    \/ Fit
    \/ Residual
    \/ CreateTempFiles
    \/ WriteData
    \/ WriteScript
    \/ RunGnuplot

Spec == Init /\ [][Next]_vars

\* ================================================================ claims
\* Quantities of the inputs, stated without the operators of the model.
SameShape == uphase.h = quality.h /\ uphase.w = quality.w
Cells == (0..(uphase.h - 1)) \X (0..(uphase.w - 1))
PhaseAt(c) == uphase.v[c[1] * uphase.w + c[2] + 1]
QualityAt(c) == quality.v[c[1] * quality.w + c[2] + 1]
\* a > b, for numbers.
Greater(a, b) == a[2] > 0 /\ b[2] > 0 /\ QSub(a, b)[1] > 0
Qualifying == {c \in Cells : Greater(QualityAt(c), args.threshold)}
\* The cell a data row was built from: (row, column) = (y, x).
CellOf(p) == <<p[2][1], p[1][1]>>
Least(S) == CHOOSE e \in S : \A o \in S : ~Greater(e, o)
Greatest(S) == CHOOSE e \in S : \A o \in S : ~Greater(o, e)
ZValues(d) == {d[k][3] : k \in DOMAIN d}
NothingAfterScan ==
    /\ coeffs = None /\ matrix = <<>> /\ target = <<>> /\ ~reported
    /\ mean_z = None /\ zlim = None
    /\ data_file = "none" /\ plot_file = "none" /\ data_rows = <<>> /\ script = None
    /\ gnuplot = "not_run" /\ ~image

\* C1 (as claimed): right after the filtering scan the point list holds
\* exactly one point per cell (i, j) whose quality is strictly greater than
\* the threshold, with x = j, y = i, z = the phase and quality = the quality
\* of the cell, in row-major order; the point count is the number of such
\* cells.
C1_FilteringScan ==
    pc = "fit" =>
        /\ Len(data) = Cardinality(Qualifying)
        /\ \A c \in Qualifying :
              \E k \in DOMAIN data :
                 data[k] = <<R(c[2]), R(c[1]), PhaseAt(c), QualityAt(c)>>
        /\ \A k \in DOMAIN data :
              /\ CellOf(data[k]) \in Qualifying
              /\ data[k][1][2] = 1 /\ data[k][2][2] = 1
        /\ \A k, l \in DOMAIN data :
              k < l => CellOf(data[k])[1] * uphase.w + CellOf(data[k])[2]
                         < CellOf(data[l])[1] * uphase.w + CellOf(data[l])[2]

\* C2 (as claimed): without supplied coefficients and with fewer than 5
\* retained points the run fails in the fit (with InsufficientDataError; an
\* abort by the solver's own error is accepted here too): no coefficients,
\* no report, no residual, no file, no render.  Stated for 1 to 4 retained
\* points; what the solver answers for a system of no rows is not decided by
\* this repository.
C2_InsufficientData ==
    (/\ args.fit_coefficients = None
     /\ SameShape
     /\ Cardinality(Qualifying) \in 1..4
     /\ pc \notin {"scan", "fit"})
    => /\ pc = "exit"
       /\ failure \in {"InsufficientData", "FitPanic"}
       /\ exit_code # 0
       /\ coeffs = None /\ ~reported /\ mean_z = None /\ zlim = None
       /\ data_file = "none" /\ plot_file = "none" /\ data_rows = <<>> /\ script = None
       /\ gnuplot = "not_run" /\ ~image

\* C3 (as claimed): a gnuplot that exits non-zero or cannot be started makes
\* the process exit non-zero; exit status 0 only with a successful render and
\* the image written.
C3_ExitStatus ==
    pc = "exit" =>
        /\ gnuplot \in {"exit1", "spawn_error"} => exit_code # 0
        /\ exit_code = 0 => (gnuplot = "exit0" /\ image)

\* C4 (as claimed): without an explicit z-range the depth-axis range of the
\* script is the minimum and maximum of the post-fit residual values.
C4_ResidualRange ==
    (script # None /\ args.zlim = None)
    => script.yrange = <<Least(ZValues(data)), Greatest(ZValues(data))>>

\* C4 (amended): without an explicit z-range the depth-axis range of the
\* script is the minimum and maximum of the raw phase values of the retained
\* cells, as folded during the filtering scan.
C4_RawPhaseRange ==
    (script # None /\ args.zlim = None)
    => script.yrange = <<Least({PhaseAt(c) : c \in Qualifying}),
                         Greatest({PhaseAt(c) : c \in Qualifying})>>

\* A script written with the default range, where the raw phases span 0..1
\* and the residuals do not.
C4_Witness ==
    /\ script # None /\ args.zlim = None
    /\ script.yrange = <<R(0), R(1)>>
    /\ \A k \in DOMAIN data : data[k][3][2] # 0 /\ Greater(R(1), data[k][3])

\* C5: arrays of different shapes abort the run in the scan with a shape
\* mismatch and a non-zero status; the point list is still empty and no later
\* stage has started.
C5_ShapeMismatch ==
    ~SameShape =>
        \/ pc = "scan"
        \/ /\ pc = "exit"
           /\ failure = "ShapeMismatch"
           /\ exit_code # 0
           /\ data = <<>>
           /\ NothingAfterScan

\* A run aborted on a 1x2 phase array and a 2x2 quality array.
C5_Witness ==
    /\ pc = "exit" /\ failure = "ShapeMismatch"
    /\ uphase.h = 1 /\ uphase.w = 2 /\ quality.h = 2 /\ quality.w = 2

\* C6 (as claimed): with no retained point and supplied coefficients the
\* residual and centring steps are a no-op: they leave a zero-length cloud
\* and raise no error.
C6_EmptyNoOp ==
    (/\ args.fit_coefficients # None
     /\ SameShape
     /\ Qualifying = {}
     /\ pc \notin {"scan", "fit", "residual"})
    => /\ data = <<>>
       /\ failure # "EmptyMeanPanic"
       /\ exit_code # 101

\* A value <<n, d, e>> that is a number, and one that carries no error.
Number(v) == v[2] > 0
Exact(v) == v[2] > 0 /\ v[3] = 0
InUnit(t) == Number(t) /\ 0 <= t[1] /\ t[1] < t[2]

\* C7 (as claimed): for every colour period P and residual z the colour
\* parameter t = (z / P) mod 1 is in [0, 1), and z and z + P give the same t.
\* Stated with allowance for rounding: t is a number (unless rounding errors
\* alone decide it), in [0, 1) when it carries no error, and the same for
\* z + P when neither z + P nor its t carries an error.
C7_AnyPeriod ==
    \A k \in DOMAIN data_rows :
        LET z == data_rows[k][2]
            t == data_rows[k][4]
            P == args.color_period
        IN  \/ t = Indet
            \/ /\ Number(t)
               /\ Exact(t) => InUnit(t)
               /\ (Exact(t) /\ Exact(RAdd(z, P))
                     /\ \A u \in ColorParam(RAdd(z, P), P) : Exact(u))
                    => ColorParam(RAdd(z, P), P) = {t}

\* The surface value at (x, y) under coefficients c, written out.
SurfaceAt(c, x, y) ==
    RDiv(RAdd(RAdd(RMul(c[1], x), RMul(c[2], y)), c[3]),
         RAdd(RAdd(RMul(c[4], x), RMul(c[5], y)), R(1)))
PostFit(d, c) == [k \in DOMAIN d |-> RSub(d[k][3], SurfaceAt(c, d[k][1], d[k][2]))]
\* The centring step subtracts the mean of the post-fit residuals and
\* leaves x, y and quality alone.
ShiftsByPostFitMean ==
    /\ Len(data') = Len(data) /\ Len(data) > 0
    /\ mean_z' = RDiv(RSum(PostFit(data, coeffs)), R(Len(data)))
    /\ \A k \in DOMAIN data :
          /\ data'[k][3] = RSub(PostFit(data, coeffs)[k], mean_z')
          /\ data'[k][1] = data[k][1]
          /\ data'[k][2] = data[k][2]
          /\ data'[k][4] = data[k][4]

\* The numbers of a column add up to 0, as rationals; nothing is asked of a
\* column with a value that rounding errors alone decide.
SumsToZero(zs) ==
    \/ \E k \in DOMAIN zs : zs[k] = Indet
    \/ /\ \A k \in DOMAIN zs : Number(zs[k])
       /\ QSum([k \in DOMAIN zs |-> <<zs[k][1], zs[k][2]>>]) = <<0, 1>>

\* C8 (as claimed): a residual-and-centring step on a non-empty cloud leaves
\* a z column of mean 0 for every input, rounding errors of the f64
\* operations aside; what it subtracts from every point is the mean of the
\* post-fit residuals; x, y and quality are unchanged.
C8_ZeroMean ==
    [][(pc = "residual" /\ pc' = "tempfiles") =>
          /\ ShiftsByPostFitMean
          /\ SumsToZero([k \in DOMAIN data' |-> data'[k][3]])]_vars

\* C9: when the process has terminated neither temporary file exists, after
\* a normal render and after any error once they were created.
C9_TempFilesRemoved ==
    pc = "exit" => (data_file # "exists" /\ plot_file # "exists")

\* A run that lost data lines to a write error, then failed writing the
\* script, and has removed both files.
C9_Witness ==
    /\ pc = "exit" /\ failure = "WriteError"
    /\ data_rows # <<>> /\ ~data_flushed
    /\ data_file = "deleted" /\ plot_file = "deleted"

\* Coefficient vectors the system is tried on.
TestCoeffs == [1..5 -> {R(0), R(1)}]
Dot(row, c) ==
    RAdd(RAdd(RAdd(RAdd(RMul(row[1], c[1]), RMul(row[2], c[2])), RMul(row[3], c[3])),
              RMul(row[4], c[4])), RMul(row[5], c[5]))
\* (a, b, c, d, e) satisfies z (d x + e y + 1) = a x + b y + c at point p.
OnSurface(c, p) ==
    RMul(p[3], RAdd(RAdd(RMul(c[4], p[1]), RMul(c[5], p[2])), R(1)))
        = RAdd(RAdd(RMul(c[1], p[1]), RMul(c[2], p[2])), c[3])

\* C10: the system assembled by the fitter has, for each point (x, y, z) in
\* order, the row [x, y, 1, -x z, -y z] and the target z, so coefficients
\* that satisfy z (d x + e y + 1) = a x + b y + c at every point solve it
\* with zero residual.
C10_DesignMatrix ==
    (pc = "residual" /\ args.fit_coefficients = None) =>
        /\ Len(matrix) = Len(data) /\ Len(target) = Len(data)
        /\ \A k \in DOMAIN data :
              LET x == data[k][1]
                  y == data[k][2]
                  z == data[k][3]
              IN  /\ matrix[k] = <<x, y, R(1), RSub(R(0), RMul(x, z)), RSub(R(0), RMul(y, z))>>
                  /\ target[k] = z
        /\ \A c \in TestCoeffs :
              (\A k \in DOMAIN data : OnSurface(c, data[k]))
              => \A k \in DOMAIN data : Dot(matrix[k], c) = target[k]

\* A fitted cloud with a point off both axes and a non-zero phase, lying on a
\* surface whose denominator is not constant.
C10_Witness ==
    /\ pc = "residual" /\ args.fit_coefficients = None
    /\ \E k \in DOMAIN data :
          data[k][1] # R(0) /\ data[k][2] # R(0) /\ data[k][3] # R(0)
    /\ \E c \in TestCoeffs :
          /\ c[4] # R(0) /\ c[5] # R(0)
          /\ \A k \in DOMAIN data : OnSurface(c, data[k])
====
